---- MODULE Spec2Model ----
(***************************************************************************)
(* Momentum Report: status classification and metrics computation of       *)
(* momentum_report.py (command line) and app.py (Streamlit).  The two      *)
(* files hold the same to_num, bucket_status, get_dom_series and the same  *)
(* metrics block; the model follows momentum_report.py and names the       *)
(* app.py twin where the two differ (validation, error reporting).         *)
(*                                                                         *)
(* Text is a sequence of one-character strings, so that str.replace,       *)
(* str.strip, str.lower, the `in` substring test and float() are computed  *)
(* character by character.  A DataFrame cell is [na, s]: NaN, or the text  *)
(* s.  A float is [nan, n, d]: NaN, or the exact rational n/d (d > 0, in   *)
(* lowest terms).  A timestamp is [nat, day, tod]: NaT, or a day ordinal   *)
(* and a minute of the day.                                                *)
(***************************************************************************)
EXTENDS Integers, Sequences, FiniteSets, TLC

VARIABLES
    pc,             \* position in main(): start, loaded, checked, prepped, computed, done, error
    csv,            \* the file's content: [header: set of column names, rows: Seq of column -> text]
    days,           \* args.days
    today,          \* datetime.today(), captured once
    df,             \* the DataFrame after read_csv: Seq of (column -> cell)
    missing,        \* required columns not in df.columns
    derived,        \* the _bucket, _close_date, _list_price, _close_price, _concessions, _dom columns
    bundle,         \* the statistics computed by main(), or NoBundle
    report,         \* the lines of the report that carry statistics, or <<>>
    arg,            \* bucket_status: the argument of the call under test
    ret             \* bucket_status: its return value, or "none" before the call

vars == <<pc, csv, days, today, df, missing, derived, bundle, report, arg, ret>>

----------------------------------------------------------------------------
(* Bounds of the model.                                                    *)

\* Most rows in a CSV file.
MaxRows == 3
\* Most fragments concatenated into one status string given to bucket_status.
MaxParts == 3

----------------------------------------------------------------------------
(* Text.                                                                   *)

UpperAlpha == <<"A","B","C","D","E","F","G","H","I","J","K","L","M",
                "N","O","P","Q","R","S","T","U","V","W","X","Y","Z">>
LowerAlpha == <<"a","b","c","d","e","f","g","h","i","j","k","l","m",
                "n","o","p","q","r","s","t","u","v","w","x","y","z">>
Whitespace == {" ", "\t"}
Digits == <<"0","1","2","3","4","5","6","7","8","9">>

\* str.lower() of one character.
LowerChar(c) ==
    IF \E i \in 1..26 : UpperAlpha[i] = c
    THEN LowerAlpha[CHOOSE i \in 1..26 : UpperAlpha[i] = c]
    ELSE c

\* str.lower()
lower(s) == [i \in 1..Len(s) |-> LowerChar(s[i])]

\* str.strip(): leading and trailing whitespace removed.
strip(s) ==
    LET nonws == {i \in 1..Len(s) : s[i] \notin Whitespace}
    IN  IF nonws = {} THEN <<>>
        ELSE LET lo == CHOOSE i \in nonws : \A j \in nonws : i <= j
                 hi == CHOOSE i \in nonws : \A j \in nonws : i >= j
             IN  SubSeq(s, lo, hi)

\* str.replace(c, ""): every occurrence of the character c removed.
RECURSIVE remove(_, _)
remove(s, c) ==
    IF s = <<>> THEN <<>>
    ELSE IF Head(s) = c THEN remove(Tail(s), c)
    ELSE <<Head(s)>> \o remove(Tail(s), c)

\* k in s: k occurs in s as a contiguous substring.
Contains(k, s) ==
    \E i \in 1..(Len(s) - Len(k) + 1) : SubSeq(s, i, i + Len(k) - 1) = k

----------------------------------------------------------------------------
(* Cells.                                                                  *)

NaNCell == [na |-> TRUE, s |-> <<>>]
Text(s) == [na |-> FALSE, s |-> s]

----------------------------------------------------------------------------
(* Status classification.                                                  *)

\* Mutant of ACTIVE_KEYS: the "a/" key left out.
ACTIVE_KEYS_without_slash ==
    { <<"a","c","t","i","v","e">>,
      <<"c","o","m","i","n","g"," ","s","o","o","n">>,
      <<"b","a","c","k"," ","o","n"," ","m","a","r","k","e","t">> }

ACTIVE_KEYS == { <<"a","c","t","i","v","e">>,
                 <<"c","o","m","i","n","g"," ","s","o","o","n">>,
                 <<"b","a","c","k"," ","o","n"," ","m","a","r","k","e","t">>,
                 <<"a","/">> }
PENDING_KEYS == { <<"p","e","n","d","i","n","g">>,
                  <<"u","n","d","e","r"," ","c","o","n","t","r","a","c","t">>,
                  <<"a","/","i">>,
                  <<"a","c","c","e","p","t","i","n","g"," ","b","a","c","k","u","p">> }
SOLD_KEYS == { <<"c","l","o","s","e","d">>, <<"s","o","l","d">> }
\* The literal list of the negative check in bucket_status.
NotActiveKeys == { <<"u","n","d","e","r"," ","c","o","n","t","r","a","c","t">>,
                   <<"p","e","n","d","i","n","g">> }

\* Mutant of bucket_status: the active rule without its negative check.
bucket_status_no_negative_check(x) ==
    IF x.na THEN "Unknown"
    ELSE LET s == lower(strip(x.s))
         IN  IF \E k \in ACTIVE_KEYS : Contains(k, s) THEN "Active"
             ELSE IF \E k \in PENDING_KEYS : Contains(k, s) THEN "Pending"
             ELSE IF \E k \in SOLD_KEYS : Contains(k, s) THEN "Sold"
             ELSE IF s = <<"a","c","t","i","v","e">> THEN "Active"
             ELSE "Other"

bucket_status(x) ==
    IF x.na THEN "Unknown"
    ELSE LET s == lower(strip(x.s))
         IN  IF (\E k \in ACTIVE_KEYS : Contains(k, s))
                  /\ ~(\E k \in NotActiveKeys : Contains(k, s))
             THEN "Active"
             ELSE IF \E k \in PENDING_KEYS : Contains(k, s) THEN "Pending"
             ELSE IF \E k \in SOLD_KEYS : Contains(k, s) THEN "Sold"
             ELSE IF s = <<"a","c","t","i","v","e">> THEN "Active"
             ELSE "Other"

----------------------------------------------------------------------------
(* Floats: NaN or an exact rational.                                       *)

NaN == [nan |-> TRUE, n |-> 0, d |-> 1]

Abs(i) == IF i < 0 THEN -i ELSE i

RECURSIVE GCD(_, _)
GCD(a, b) == IF b = 0 THEN a ELSE GCD(b, a % b)

\* The rational n/d (d # 0) in lowest terms with a positive denominator.
Rat(n, d) ==
    LET g == GCD(Abs(n), Abs(d))
        sgn == IF d < 0 THEN -1 ELSE 1
    IN  [nan |-> FALSE, n |-> sgn * (n \div g), d |-> Abs(d) \div g]

Num(i) == Rat(i, 1)

\* a - b; NaN if either is NaN.
FSub(a, b) == IF a.nan \/ b.nan THEN NaN ELSE Rat(a.n * b.d - b.n * a.d, a.d * b.d)
\* a + b
FAdd(a, b) == IF a.nan \/ b.nan THEN NaN ELSE Rat(a.n * b.d + b.n * a.d, a.d * b.d)
\* a / b for b # 0
FDiv(a, b) == IF a.nan \/ b.nan THEN NaN ELSE Rat(a.n * b.d, a.d * b.n)
\* a <= b and a > b; every comparison with NaN is False.
FLe(a, b) == ~a.nan /\ ~b.nan /\ a.n * b.d <= b.n * a.d
FGt(a, b) == ~a.nan /\ ~b.nan /\ a.n * b.d > b.n * a.d

IsDigit(c) == \E i \in 1..10 : Digits[i] = c
DigitVal(c) == (CHOOSE i \in 1..10 : Digits[i] = c) - 1

\* The value of a sequence of digits read as a decimal numeral (0 for none).
RECURSIVE DigitsVal(_)
DigitsVal(s) ==
    IF s = <<>> THEN 0
    ELSE 10 * DigitsVal(SubSeq(s, 1, Len(s) - 1)) + DigitVal(s[Len(s)])

RECURSIVE Pow10(_)
Pow10(k) == IF k = 0 THEN 1 ELSE 10 * Pow10(k - 1)

\* float(s) for the decimal numerals: [sign] digits [. digits] or [sign] . digits.
\* Anything else raises ValueError, reported here as NaN (both callers coerce it).
ParseFloat(s) ==
    LET signed == s # <<>> /\ s[1] \in {"+", "-"}
        body == IF signed THEN Tail(s) ELSE s
        dots == {i \in 1..Len(body) : body[i] = "."}
        ok == /\ \A i \in 1..Len(body) : IsDigit(body[i]) \/ body[i] = "."
              /\ Cardinality(dots) <= 1
              /\ \E i \in 1..Len(body) : IsDigit(body[i])
        digs == remove(body, ".")
        frac == IF dots = {} THEN 0 ELSE Len(body) - (CHOOSE i \in dots : TRUE)
        mag == Rat(DigitsVal(digs), Pow10(frac))
    IN  IF ~ok THEN NaN
        ELSE IF signed /\ s[1] = "-" THEN Rat(-mag.n, mag.d) ELSE mag

to_num(x) ==
    IF x.na THEN NaN
    ELSE ParseFloat(strip(remove(remove(x.s, "$"), ",")))

\* One element of pd.to_numeric(df[dom_col].astype(str).str.replace(",", ""),
\* errors="coerce"): NaN becomes the text "nan", which coerces to NaN.
dom_value(x) ==
    IF x.na THEN NaN
    ELSE ParseFloat(remove(x.s, ","))

----------------------------------------------------------------------------
(* Timestamps.                                                             *)

NaT == [nat |-> TRUE, day |-> 0, tod |-> 0]
Stamp(day, tod) == [nat |-> FALSE, day |-> day, tod |-> tod]

IsLeap(y) == (y % 4 = 0 /\ y % 100 # 0) \/ y % 400 = 0
DaysInMonth(y, m) ==
    IF m = 2 THEN (IF IsLeap(y) THEN 29 ELSE 28)
    ELSE IF m \in {4, 6, 9, 11} THEN 30 ELSE 31

\* Days since 1970-01-01 of the proleptic Gregorian date y-m-d.
Ordinal(y, m, d) ==
    LET yy == IF m <= 2 THEN y - 1 ELSE y
        era == yy \div 400
        yoe == yy - era * 400
        mp == IF m > 2 THEN m - 3 ELSE m + 9
        doy == (153 * mp + 2) \div 5 + d - 1
        doe == yoe * 365 + yoe \div 4 - yoe \div 100 + doy
    IN  era * 146097 + doe - 719468

\* One element of pd.to_datetime(df["Close Date"], errors="coerce") for the
\* date-only ISO text YYYY-MM-DD, which parses to midnight of that day; NaN,
\* other text and impossible dates coerce to NaT.
to_datetime(x) ==
    IF x.na THEN NaT
    ELSE LET s == x.s
             shaped == /\ Len(s) = 10
                       /\ s[5] = "-" /\ s[8] = "-"
                       /\ \A i \in {1, 2, 3, 4, 6, 7, 9, 10} : IsDigit(s[i])
         IN  IF ~shaped THEN NaT
             ELSE LET y == DigitsVal(SubSeq(s, 1, 4))
                      m == DigitsVal(SubSeq(s, 6, 7))
                      d == DigitsVal(SubSeq(s, 9, 10))
                  IN  IF y >= 1678 /\ y <= 2261 /\ m \in 1..12 /\ d \in 1..DaysInMonth(y, m)
                      THEN Stamp(Ordinal(y, m, d), 0)
                      ELSE NaT

\* t - timedelta(days=n): the date moves, the time of day stays.
minus_days(t, n) == Stamp(t.day - n, t.tod)

\* a >= b on timestamps; False when a is NaT.
StampGe(a, b) == ~a.nat /\ (a.day > b.day \/ (a.day = b.day /\ a.tod >= b.tod))

----------------------------------------------------------------------------
(* Series.                                                                 *)

\* series.loc[mask]: the elements where mask is True, in order.
RECURSIVE loc(_, _)
loc(s, mask) ==
    IF s = <<>> THEN <<>>
    ELSE (IF Head(mask) THEN <<Head(s)>> ELSE <<>>) \o loc(Tail(s), Tail(mask))

\* series.dropna()
dropna(s) == SelectSeq(s, LAMBDA v : ~v.nan)

\* int(mask.sum())
RECURSIVE count(_)
count(mask) ==
    IF mask = <<>> THEN 0 ELSE (IF Head(mask) THEN 1 ELSE 0) + count(Tail(mask))

\* float(s.min()) if not s.empty else np.nan, for s without NaN
series_min(s) ==
    IF s = <<>> THEN NaN
    ELSE s[CHOOSE i \in 1..Len(s) : \A j \in 1..Len(s) : FLe(s[i], s[j])]

\* float(s.max()) if not s.empty else np.nan, for s without NaN
series_max(s) ==
    IF s = <<>> THEN NaN
    ELSE s[CHOOSE i \in 1..Len(s) : \A j \in 1..Len(s) : FLe(s[j], s[i])]

RECURSIVE series_sum(_)
series_sum(s) == IF s = <<>> THEN Num(0) ELSE FAdd(Head(s), series_sum(Tail(s)))

\* float(s.mean()) if not s.empty else np.nan
series_mean(s) ==
    IF s = <<>> THEN NaN ELSE FDiv(series_sum(s), Num(Len(s)))

\* s.sort_values(): insertion sort, ascending.
RECURSIVE insert(_, _)
insert(v, s) ==
    IF s = <<>> THEN <<v>>
    ELSE IF FLe(v, Head(s)) THEN <<v>> \o s
    ELSE <<Head(s)>> \o insert(v, Tail(s))

RECURSIVE sort_values(_)
sort_values(s) == IF s = <<>> THEN <<>> ELSE insert(Head(s), sort_values(Tail(s)))

\* float(s.median()) if not s.empty else np.nan: the middle value, or the
\* mean of the two middle values.
series_median(s) ==
    IF s = <<>> THEN NaN
    ELSE LET o == sort_values(s)
             n == Len(o)
         IN  IF n % 2 = 1 THEN o[(n + 1) \div 2]
             ELSE FDiv(FAdd(o[n \div 2], o[n \div 2 + 1]), Num(2))

----------------------------------------------------------------------------
(* The columns.                                                            *)

\* Mutant of REQUIRED_COLUMNS: "Close Price" left out of the list.
REQUIRED_COLUMNS_without_close_price == {"Mls Status", "Close Date", "List Price"}

REQUIRED_COLUMNS == {"Mls Status", "Close Date", "List Price", "Close Price"}

\* pandas' default na_values that the input texts of the model can spell.
NA_VALUES == { <<>>, <<"N","/","A">>, <<"n","/","a">>, <<"N","A">>,
               <<"n","a","n">>, <<"N","a","N">> }

\* One cell of pd.read_csv(csv_path, dtype=str): text, or NaN for an NA text.
read_cell(t) == IF t \in NA_VALUES THEN NaNCell ELSE Text(t)

\* pd.read_csv(csv_path, dtype=str)
read_csv(file) ==
    [i \in 1..Len(file.rows) |-> [c \in file.header |-> read_cell(file.rows[i][c])]]

\* [c for c in REQUIRED_COLUMNS if c not in df.columns]
missing_columns(header) == REQUIRED_COLUMNS \ header

\* get_dom_series(df)
get_dom_series(header, frame) ==
    LET dom_col == IF "DaysInMLS" \in header THEN "DaysInMLS"
                   ELSE IF "Days in MLS" \in header THEN "Days in MLS"
                   ELSE "None"
    IN  IF dom_col = "None" THEN [i \in 1..Len(frame) |-> NaN]
        ELSE [i \in 1..Len(frame) |-> dom_value(frame[i][dom_col])]

\* Mutant of prepare: one currency value that does not parse blanks the
\* record's three currency fields.
prepare_all_or_nothing(header, frame) ==
    LET has_concessions == "Seller Concessions" \in header
        dom == get_dom_series(header, frame)
        bad(i) == \/ ~frame[i]["List Price"].na /\ to_num(frame[i]["List Price"]).nan
                  \/ ~frame[i]["Close Price"].na /\ to_num(frame[i]["Close Price"]).nan
    IN  [i \in 1..Len(frame) |->
            [bucket      |-> bucket_status(frame[i]["Mls Status"]),
             close_date  |-> to_datetime(frame[i]["Close Date"]),
             list_price  |-> IF bad(i) THEN NaN ELSE to_num(frame[i]["List Price"]),
             close_price |-> IF bad(i) THEN NaN ELSE to_num(frame[i]["Close Price"]),
             concessions |-> IF has_concessions
                             THEN (IF bad(i) THEN NaN
                                   ELSE to_num(frame[i]["Seller Concessions"]))
                             ELSE Num(0),
             dom         |-> dom[i]]]

\* The derived columns of main(), one record per row.
prepare(header, frame) ==
    LET has_concessions == "Seller Concessions" \in header
        dom == get_dom_series(header, frame)
    IN  [i \in 1..Len(frame) |->
            [bucket      |-> bucket_status(frame[i]["Mls Status"]),
             close_date  |-> to_datetime(frame[i]["Close Date"]),
             list_price  |-> to_num(frame[i]["List Price"]),
             close_price |-> to_num(frame[i]["Close Price"]),
             concessions |-> IF has_concessions
                             THEN to_num(frame[i]["Seller Concessions"])
                             ELSE Num(0),
             dom         |-> dom[i]]]

----------------------------------------------------------------------------
(* The metrics.                                                            *)

\* Mutant of is_sold_window: > in place of >=.
is_sold_window_strict(dv, window_start) ==
    [i \in 1..Len(dv) |->
        /\ dv[i].bucket = "Sold"
        /\ StampGe(dv[i].close_date, window_start)
        /\ dv[i].close_date # window_start]

\* (df["_bucket"] == "Sold") & (df["_close_date"] >= window_start)
is_sold_window(dv, window_start) ==
    [i \in 1..Len(dv) |-> dv[i].bucket = "Sold" /\ StampGe(dv[i].close_date, window_start)]

\* df["_bucket"] == b
bucket_is(dv, b) == [i \in 1..Len(dv) |-> dv[i].bucket = b]

\* Mutant of months_of_inventory: sold_window_count // 3, an integer division.
months_of_inventory_floor_division(active_count, pending_count, sold_window_count) ==
    LET den == FAdd(Num(sold_window_count \div 3), Num(pending_count))
    IN  IF FGt(den, Num(0)) THEN FDiv(Num(active_count), den) ELSE NaN

\* den = (sold_window_count / 3.0) + pending_count
\* moi = (active_count / den) if den > 0 else np.nan
months_of_inventory(active_count, pending_count, sold_window_count) ==
    LET den == FAdd(FDiv(Num(sold_window_count), Num(3)), Num(pending_count))
    IN  IF FGt(den, Num(0)) THEN FDiv(Num(active_count), den) ELSE NaN

\* Mutant of net_price: the concessions are never subtracted.
net_price_gross(dv, has_concessions) ==
    [i \in 1..Len(dv) |-> FSub(dv[i].close_price, Num(0))]

\* net_price = df["_close_price"] - (df["_concessions"] if has_concessions else 0)
net_price(dv, has_concessions) ==
    [i \in 1..Len(dv) |->
        FSub(dv[i].close_price, IF has_concessions THEN dv[i].concessions ELSE Num(0))]

\* Mutant of price_ranges: active_min taken from pending_prices.
price_ranges_copy_paste(dv, in_window, has_concessions) ==
    LET list_price == [i \in 1..Len(dv) |-> dv[i].list_price]
        active_prices == dropna(loc(list_price, bucket_is(dv, "Active")))
        pending_prices == dropna(loc(list_price, bucket_is(dv, "Pending")))
        sold_net_prices == dropna(loc(net_price(dv, has_concessions), in_window))
    IN  [active_min   |-> IF active_prices = <<>> THEN NaN ELSE series_min(pending_prices),
         active_max   |-> series_max(active_prices),
         pending_min  |-> series_min(pending_prices),
         pending_max  |-> series_max(pending_prices),
         sold_net_min |-> series_min(sold_net_prices),
         sold_net_max |-> series_max(sold_net_prices)]

\* The three price ranges.
price_ranges(dv, in_window, has_concessions) ==
    LET list_price == [i \in 1..Len(dv) |-> dv[i].list_price]
        active_prices == dropna(loc(list_price, bucket_is(dv, "Active")))
        pending_prices == dropna(loc(list_price, bucket_is(dv, "Pending")))
        sold_net_prices == dropna(loc(net_price(dv, has_concessions), in_window))
    IN  [active_min   |-> series_min(active_prices),
         active_max   |-> series_max(active_prices),
         pending_min  |-> series_min(pending_prices),
         pending_max  |-> series_max(pending_prices),
         sold_net_min |-> series_min(sold_net_prices),
         sold_net_max |-> series_max(sold_net_prices)]

\* Everything main() computes between "Solds window" and the chart.
metrics(header, dv, now, n) ==
    LET has_concessions == "Seller Concessions" \in header
        window_start == minus_days(now, n)
        in_window == is_sold_window(dv, window_start)
        active_count == count(bucket_is(dv, "Active"))
        pending_count == count(bucket_is(dv, "Pending"))
        sold_window_count == count(in_window)
        ranges == price_ranges(dv, in_window, has_concessions)
        dom_series == dropna(loc([i \in 1..Len(dv) |-> dv[i].dom], in_window))
    IN  [window_start      |-> window_start,
         is_sold_window    |-> in_window,
         active_count      |-> active_count,
         pending_count     |-> pending_count,
         sold_window_count |-> sold_window_count,
         moi               |-> months_of_inventory(active_count, pending_count,
                                                   sold_window_count),
         net_price         |-> net_price(dv, has_concessions),
         active_min        |-> ranges.active_min,
         active_max        |-> ranges.active_max,
         pending_min       |-> ranges.pending_min,
         pending_max       |-> ranges.pending_max,
         sold_net_min      |-> ranges.sold_net_min,
         sold_net_max      |-> ranges.sold_net_max,
         avg_dom           |-> series_mean(dom_series),
         median_dom        |-> series_median(dom_series)]

\* The report lines that print "N/A".
na_lines(b) ==
    {l \in {"MOI"} : b.moi.nan}
    \cup {l \in {"Active List Price Range"} : b.active_min.nan \/ b.active_max.nan}
    \cup {l \in {"Pending List Price Range"} : b.pending_min.nan \/ b.pending_max.nan}
    \cup {l \in {"Closed Net Price Range"} : b.sold_net_min.nan \/ b.sold_net_max.nan}
    \cup {l \in {"Average DaysInMLS"} : b.avg_dom.nan}
    \cup {l \in {"Median DaysInMLS"} : b.median_dom.nan}

----------------------------------------------------------------------------
(* Inputs: the CSV files, the --days values and the clock readings the     *)
(* model runs main() on.                                                   *)

AllColumns == {"Mls Status", "Close Date", "List Price", "Close Price",
               "Seller Concessions", "DaysInMLS", "Days in MLS"}

Row(status, close_date, list_price, close_price, concessions, dom, dom_alt) ==
    [c \in AllColumns |->
        CASE c = "Mls Status" -> status
          [] c = "Close Date" -> close_date
          [] c = "List Price" -> list_price
          [] c = "Close Price" -> close_price
          [] c = "Seller Concessions" -> concessions
          [] c = "DaysInMLS" -> dom
          [] c = "Days in MLS" -> dom_alt]

\* Active, list price 300000
RowActive ==
    Row(<<"A","c","t","i","v","e">>,
        <<>>,
        <<"3","0","0","0","0","0">>,
        <<>>,
        <<>>,
        <<>>,
        <<>>)

\* Pending, list price 250000
RowPending ==
    Row(<<"P","e","n","d","i","n","g">>,
        <<>>,
        <<"2","5","0","0","0","0">>,
        <<>>,
        <<>>,
        <<>>,
        <<>>)

\* Closed ten days before ReferenceDay, close price 280000, concessions 5000, 45 days
RowClosed ==
    Row(<<"C","l","o","s","e","d">>,
        <<"2","0","2","4","-","0","6","-","0","5">>,
        <<>>,
        <<"2","8","0","0","0","0">>,
        <<"5","0","0","0">>,
        <<"4","5">>,
        <<"9","9">>)

\* Closed 90 days before ReferenceDay, blank concessions cell
RowBoundary ==
    Row(<<"C","l","o","s","e","d">>,
        <<"2","0","2","4","-","0","3","-","1","7">>,
        <<"$","3","2","0",",","0","0","0">>,
        <<"$","3","0","5",",","5","0","0",".","5","0">>,
        <<>>,
        <<"1",",","0","4","5">>,
        <<"1",",","0","4","5">>)

\* Sold 91 days before ReferenceDay, unparseable close price and day count
RowDayEarlier ==
    Row(<<"S","o","l","d">>,
        <<"2","0","2","4","-","0","3","-","1","6">>,
        <<"n","/","a">>,
        <<"T","B","D">>,
        <<"2",",","5","0","0">>,
        <<"1","2"," ","d","a","y","s">>,
        <<"1","2">>)

\* a compound status, unparseable close date and concessions
RowCompound ==
    Row(<<"A","c","t","i","v","e","/","U","n","d","e","r"," ","C","o","n","t","r","a","c","t">>,
        <<"t","b","d">>,
        <<"$","3","1","0",",","0","0","0">>,
        <<>>,
        <<"a","b","c">>,
        <<>>,
        <<>>)

\* Sold on an impossible date, unparseable list price
RowBadDate ==
    Row(<<"S","O","L","D">>,
        <<"2","0","2","4","-","0","2","-","3","0">>,
        <<"a","b","c">>,
        <<"2","9","9","0","0","0">>,
        <<"0">>,
        <<"7">>,
        <<"7">>)

\* an Active spelling with an unparseable list price
RowBadList ==
    Row(<<"B","a","c","k"," ","O","n"," ","M","a","r","k","e","t">>,
        <<>>,
        <<"a","b","c">>,
        <<>>,
        <<>>,
        <<"3">>,
        <<"3">>)

RowChoices == {RowActive, RowPending, RowClosed, RowBoundary, RowDayEarlier,
               RowCompound, RowBadDate, RowBadList}

\* The headers: the first four hold every required column.
HeaderChoices ==
    { AllColumns \ {"Days in MLS"},
      AllColumns \ {"Seller Concessions", "DaysInMLS", "Days in MLS"},
      AllColumns \ {"Seller Concessions", "DaysInMLS"},
      AllColumns,
      AllColumns \ {"Close Price"},
      {"Mls Status", "List Price", "DaysInMLS"},
      {"Seller Concessions"} }

\* The day the report runs: 2024-06-15.
ReferenceDay == Ordinal(2024, 6, 15)
\* datetime.today(): at midnight sharp, and at 14:30.
TodayChoices == {Stamp(ReferenceDay, 0), Stamp(ReferenceDay, 14 * 60 + 30)}
\* args.days
DaysChoices == {90, 91}

\* The sequences over S of length at most n.
SeqsUpTo(S, n) == UNION {[1..k -> S] : k \in 0..n}

\* A CSV file with the header h and the rows r: each row has the header's cells.
CsvFile(h, r) == [header |-> h, rows |-> [i \in 1..Len(r) |-> [c \in h |-> r[i][c]]]]

NoFile == [header |-> {}, rows |-> <<>>]
NoReport == [saved |-> FALSE, na |-> {}, error |-> "none"]

----------------------------------------------------------------------------
(* main()                                                                  *)

Init ==
    /\ pc = "start"
    /\ csv = NoFile
    /\ days = 0
    /\ today = NaT
    /\ df = <<>>
    /\ missing = {}
    /\ derived = <<>>
    /\ bundle = <<>>
    /\ report = NoReport
    /\ arg = NaNCell
    /\ ret = "none"

\* os.path.exists(csv_path) is False: raise SystemExit("File not found")
FileNotFound ==
    /\ pc = "start"
    /\ \E n \in DaysChoices : days' = n
    /\ pc' = "error"
    /\ report' = [NoReport EXCEPT !.error = "File not found"]
    /\ UNCHANGED <<csv, today, df, missing, derived, bundle, arg, ret>>

\* args = parser.parse_args(); df = pd.read_csv(csv_path, dtype=str)
ReadCsv ==
    /\ pc = "start"
    /\ \E n \in DaysChoices, h \in HeaderChoices, r \in SeqsUpTo(RowChoices, MaxRows) :
          /\ days' = n
          /\ csv' = CsvFile(h, r)
          /\ df' = read_csv(CsvFile(h, r))
    /\ pc' = "loaded"
    /\ UNCHANGED <<today, missing, derived, bundle, report, arg, ret>>

\* missing = [...]; if missing: raise SystemExit("Missing required columns")
\* (app.py: st.error("Missing required columns"); st.stop())
Validate ==
    /\ pc = "loaded"
    /\ missing' = missing_columns(csv.header)
    /\ IF missing_columns(csv.header) # {}
       THEN /\ pc' = "error"
            /\ report' = [NoReport EXCEPT !.error = "Missing required columns"]
       ELSE /\ pc' = "checked"
            /\ UNCHANGED report
    /\ UNCHANGED <<csv, days, today, df, derived, bundle, arg, ret>>

\* "Prep": the derived columns.
Prep ==
    /\ pc = "checked"
    /\ derived' = prepare(csv.header, df)
    /\ pc' = "prepped"
    /\ UNCHANGED <<csv, days, today, df, missing, bundle, report, arg, ret>>

\* today = datetime.today(), then the window, the counts, MOI, the ranges and
\* the days-on-market statistics.
Compute ==
    /\ pc = "prepped"
    /\ \E now \in TodayChoices :
          /\ today' = now
          /\ bundle' = <<metrics(csv.header, derived, now, days)>>
    /\ pc' = "computed"
    /\ UNCHANGED <<csv, days, df, missing, derived, report, arg, ret>>

\* The chart and the DOCX report are written.
Report ==
    /\ pc = "computed"
    /\ report' = [saved |-> TRUE, na |-> na_lines(bundle[1]), error |-> "none"]
    /\ pc' = "done"
    /\ UNCHANGED <<csv, days, today, df, missing, derived, bundle, arg, ret>>

Next == FileNotFound \/ ReadCsv \/ Validate \/ Prep \/ Compute \/ Report

Spec == Init /\ [][Next]_vars

----------------------------------------------------------------------------
(* bucket_status on its own: one call on a status built from fragments.    *)

\* Spellings MLS exports use, a separator and a blank.
StatusFragments ==
    { <<"A","c","t","i","v","e">>,
      <<"P","e","n","d","i","n","g">>,
      <<"U","n","d","e","r"," ","C","o","n","t","r","a","c","t">>,
      <<"A","/","I">>,
      <<"a","/">>,
      <<"C","l","o","s","e","d">>,
      <<"S","o","l","d">>,
      <<"C","o","m","i","n","g"," ","S","o","o","n">>,
      <<"B","a","c","k"," ","O","n"," ","M","a","r","k","e","t">>,
      <<"A","c","c","e","p","t","i","n","g"," ","B","a","c","k","u","p">>,
      <<" ">>,
      <<"/">>,
      <<"W","i","t","h","d","r","a","w","n">>,
      <<"E","x","p","i","r","e","d">> }

RECURSIVE Concat(_)
Concat(parts) == IF parts = <<>> THEN <<>> ELSE Head(parts) \o Concat(Tail(parts))

\* The "Mls Status" cells read_csv delivers for the concatenations of at most
\* MaxParts fragments: the empty text arrives as NaN.
StatusArgs == {read_cell(Concat(parts)) : parts \in SeqsUpTo(StatusFragments, MaxParts)}

InitBucket ==
    /\ pc = "start"
    /\ csv = NoFile
    /\ days = 0
    /\ today = NaT
    /\ df = <<>>
    /\ missing = {}
    /\ derived = <<>>
    /\ bundle = <<>>
    /\ report = NoReport
    /\ arg \in StatusArgs
    /\ ret = "none"

CallBucketStatus ==
    /\ ret = "none"
    /\ ret' = bucket_status(arg)
    /\ UNCHANGED <<pc, csv, days, today, df, missing, derived, bundle, report, arg>>

NextBucket == CallBucketStatus

SpecBucket == InitBucket /\ [][NextBucket]_vars

----------------------------------------------------------------------------
(* Properties of bucket_status (checked under SpecBucket).                 *)

KeyActive == <<"a","c","t","i","v","e">>
KeyPending == <<"p","e","n","d","i","n","g">>
KeyUnderContract == <<"u","n","d","e","r"," ","c","o","n","t","r","a","c","t">>
KeyAI == <<"a","/","i">>
KeyAcceptingBackup == <<"a","c","c","e","p","t","i","n","g"," ","b","a","c","k","u","p">>

Called == ret # "none"
\* The lower-cased status text contains k.
Has(k) == ~arg.na /\ Contains(k, lower(arg.s))

\* C1: a status whose lower-cased text contains "active" and also "pending" or
\* "under contract" is classified Pending, never Active.
C1_CompoundActiveIsPending ==
    (Called /\ Has(KeyActive) /\ (Has(KeyPending) \/ Has(KeyUnderContract)))
        => ret = "Pending"

\* C1 witness: "Active/Under Contract" has been classified, as Pending.
C1_Witness ==
    /\ arg = Text(<<"A","c","t","i","v","e","/","U","n","d","e","r"," ","C","o","n","t","r","a","c","t">>)
    /\ ret = "Pending"

\* C2: a missing status and a status that is empty, or empty once trimmed, are
\* classified Unknown.
C2_EmptyIsUnknown ==
    (Called /\ (arg.na \/ strip(arg.s) = <<>>)) => ret = "Unknown"

\* C10: a status that contains "a/i" and neither "pending" nor "under contract"
\* is classified Active, and no status owes a Pending result to the "a/i" key:
\* every Pending status contains one of the other three pending keys.
C10_AiIsActive ==
    /\ (Called /\ Has(KeyAI) /\ ~Has(KeyPending) /\ ~Has(KeyUnderContract))
          => ret = "Active"
    /\ (Called /\ ret = "Pending")
          => (Has(KeyPending) \/ Has(KeyUnderContract) \/ Has(KeyAcceptingBackup))

\* C10 witness: "A/I Accepting Backup", which holds two pending keys, has been
\* classified, as Active.
C10_Witness ==
    /\ arg = Text(<<"A","/","I"," ","A","c","c","e","p","t","i","n","g"," ","B","a","c","k","u","p">>)
    /\ ret = "Active"

----------------------------------------------------------------------------
(* Properties of main() (checked under Spec).                              *)

Computed == pc \in {"computed", "done"}
Rows == 1..Len(df)
HasRequired == {"Mls Status", "Close Date", "List Price", "Close Price"} \subseteq csv.header
HasConcessions == "Seller Concessions" \in csv.header

\* Row i is a Sold row whose close date parsed and is not before now - days.
InWindow(i) ==
    /\ derived[i].bucket = "Sold"
    /\ ~derived[i].close_date.nat
    /\ LET d == derived[i].close_date
       IN  \/ d.day > today.day - days
           \/ d.day = today.day - days /\ d.tod >= today.tod
\* The rows classified b.
InBucket(b) == {i \in Rows : derived[i].bucket = b}
\* The rational n/d equals the float f.
Equals(f, n, d) == ~f.nan /\ f.n * d = n * f.d

\* C3: a row is counted in the sold window if and only if it is Sold, its close
\* date parsed, and the parsed date is at or after referenceNow - windowDays.
C3_SoldWindow ==
    Computed =>
        /\ \A i \in Rows : bundle[1].is_sold_window[i] <=> InWindow(i)
        /\ bundle[1].sold_window_count = Cardinality({i \in Rows : InWindow(i)})

\* C3 witness: a Sold row closed exactly at referenceNow - windowDays is in the
\* window, a Sold row closed one day earlier is not, and a Sold row whose close
\* date did not parse is not.
C3_Witness ==
    /\ pc = "done"
    /\ \E i, j, k \in Rows :
        /\ derived[i].bucket = "Sold" /\ derived[j].bucket = "Sold" /\ derived[k].bucket = "Sold"
        /\ derived[i].close_date = Stamp(today.day - days, today.tod)
        /\ bundle[1].is_sold_window[i]
        /\ derived[j].close_date = Stamp(today.day - days - 1, today.tod)
        /\ ~bundle[1].is_sold_window[j]
        /\ derived[k].close_date.nat
        /\ ~bundle[1].is_sold_window[k]

\* C4: monthsOfInventory is undefined exactly when soldWindowCount and
\* pendingCount are both 0, and otherwise is activeCount / (soldWindowCount / 3
\* + pendingCount), that is 3 * activeCount / (soldWindowCount + 3 * pendingCount).
C4_MonthsOfInventory ==
    Computed =>
        LET b == bundle[1]
        IN  /\ b.moi.nan <=> (b.sold_window_count = 0 /\ b.pending_count = 0)
            /\ ~b.moi.nan =>
                  Equals(b.moi, 3 * b.active_count, b.sold_window_count + 3 * b.pending_count)

\* C4 witness: one sale in the window and nothing pending, so the denominator is
\* one third, and the ratio is three times the active count.
C4_Witness ==
    /\ pc = "done"
    /\ bundle[1].sold_window_count = 1
    /\ bundle[1].pending_count = 0
    /\ bundle[1].active_count = 2
    /\ Equals(bundle[1].moi, 6, 1)

\* C5: a record's net price is Missing only if its close price is Missing, with
\* or without a concessions column; soldNetPriceRange is undefined only when no
\* record of the sold window has a parseable close price.
C5_NetPriceMissingOnlyWithClosePrice ==
    Computed =>
        /\ \A i \in Rows : bundle[1].net_price[i].nan => derived[i].close_price.nan
        /\ (bundle[1].sold_net_min.nan \/ bundle[1].sold_net_max.nan)
              => ~\E i \in Rows : InWindow(i) /\ ~derived[i].close_price.nan

\* C6: nothing is classified or computed unless the four mandatory columns are
\* all present; with one absent the run stops in an error that names the missing
\* columns, with no derived column, no bundle and no report.
C6_SchemaChecked ==
    /\ (pc \in {"checked", "prepped", "computed", "done"}
          \/ derived # <<>> \/ bundle # <<>> \/ report.saved) => HasRequired
    /\ (pc # "start" /\ csv # NoFile /\ ~HasRequired) =>
          /\ pc \in {"loaded", "error"}
          /\ pc = "error" =>
                /\ report.error = "Missing required columns"
                /\ missing = {"Mls Status", "Close Date", "List Price", "Close Price"} \ csv.header
                /\ missing # {}

\* C6 witness: a file without "Close Price" has ended in the error that names it.
C6_Witness ==
    /\ pc = "error"
    /\ csv.rows # <<>>
    /\ missing = {"Close Price"}
    /\ report.error = "Missing required columns"
    /\ bundle = <<>> /\ ~report.saved

\* The three records of the scenario, with a concessions and a DaysInMLS column,
\* read on a day when the sale is exactly ten days old.
IsScenario ==
    /\ HasRequired /\ HasConcessions /\ "DaysInMLS" \in csv.header
    /\ Len(df) = 3
    /\ df[1]["Mls Status"] = Text(<<"A","c","t","i","v","e">>)
    /\ df[1]["Close Date"].na
    /\ df[1]["List Price"] = Text(<<"3","0","0","0","0","0">>)
    /\ df[2]["Mls Status"] = Text(<<"P","e","n","d","i","n","g">>)
    /\ df[2]["Close Date"].na
    /\ df[2]["List Price"] = Text(<<"2","5","0","0","0","0">>)
    /\ df[3]["Mls Status"] = Text(<<"C","l","o","s","e","d">>)
    /\ to_datetime(df[3]["Close Date"]) = Stamp(today.day - 10, today.tod)
    /\ df[3]["Close Price"] = Text(<<"2","8","0","0","0","0">>)
    /\ df[3]["Seller Concessions"] = Text(<<"5","0","0","0">>)
    /\ df[3]["DaysInMLS"] = Text(<<"4","5">>)
    /\ days = 90

\* C7: the scenario's bundle.
C7_Scenario ==
    (Computed /\ IsScenario) =>
        LET b == bundle[1]
        IN  /\ b.active_count = 1 /\ b.pending_count = 1 /\ b.sold_window_count = 1
            /\ Equals(b.moi, 3, 4)
            /\ Equals(b.active_min, 300000, 1) /\ Equals(b.active_max, 300000, 1)
            /\ Equals(b.pending_min, 250000, 1) /\ Equals(b.pending_max, 250000, 1)
            /\ Equals(b.sold_net_min, 275000, 1) /\ Equals(b.sold_net_max, 275000, 1)
            /\ Equals(b.avg_dom, 45, 1) /\ Equals(b.median_dom, 45, 1)

\* C7 witness: the scenario has been computed and reported.
C7_Witness == pc = "done" /\ IsScenario /\ report.na = {}

\* C8: each count lies between 0 and the number of records, and each range that
\* is defined has min <= max.
C8_CountsAndRanges ==
    Computed =>
        LET b == bundle[1]
            Ordered(lo, hi) == (~lo.nan /\ ~hi.nan) => lo.n * hi.d <= hi.n * lo.d
        IN  /\ b.active_count \in 0..Len(df)
            /\ b.pending_count \in 0..Len(df)
            /\ b.sold_window_count \in 0..Len(df)
            /\ Ordered(b.active_min, b.active_max)
            /\ Ordered(b.pending_min, b.pending_max)
            /\ Ordered(b.sold_net_min, b.sold_net_max)

\* C8 witness: three records, two Pending with different list prices and one
\* Active, so the pending range has min < max and the active range min = max.
C8_Witness ==
    /\ pc = "done"
    /\ Len(df) = 3
    /\ bundle[1].pending_count = 2
    /\ bundle[1].active_count = 1
    /\ FGt(bundle[1].pending_max, bundle[1].pending_min)
    /\ bundle[1].active_min = bundle[1].active_max /\ ~bundle[1].active_min.nan

\* lo and hi are the least and the greatest non-NaN value of vals, or both NaN
\* when vals holds no value.
IsRange(lo, hi, vals) ==
    LET S == {v \in vals : ~v.nan}
    IN  IF S = {} THEN lo.nan /\ hi.nan
        ELSE /\ lo \in S /\ hi \in S
             /\ \A v \in S : lo.n * v.d <= v.n * lo.d /\ v.n * hi.d <= hi.n * v.d

\* C9: with the four mandatory columns the run never ends in an error; a value
\* that does not parse is Missing in its own field of its own record and every
\* other derived field is what its own cell gives (stated where Prep has just
\* set the derived columns, which nothing changes later); the counts rest on the
\* status and the close date alone; each range is taken over the values that
\* are not Missing; and a statistic without values is undefined.
C9_DegradesLocally ==
    /\ (pc # "start" /\ csv # NoFile /\ HasRequired) => pc # "error"
    /\ pc = "prepped" =>
          /\ Len(derived) = Len(df)
          /\ \A i \in Rows :
                /\ derived[i].bucket = bucket_status(df[i]["Mls Status"])
                /\ derived[i].close_date = to_datetime(df[i]["Close Date"])
                /\ derived[i].list_price = to_num(df[i]["List Price"])
                /\ derived[i].close_price = to_num(df[i]["Close Price"])
                /\ HasConcessions =>
                      derived[i].concessions = to_num(df[i]["Seller Concessions"])
                /\ "DaysInMLS" \in csv.header =>
                      derived[i].dom = dom_value(df[i]["DaysInMLS"])
    /\ Computed =>
        LET b == bundle[1]
            window == {i \in Rows : InWindow(i)}
            doms == {i \in window : ~derived[i].dom.nan}
        IN  /\ b.active_count = Cardinality(InBucket("Active"))
            /\ b.pending_count = Cardinality(InBucket("Pending"))
            /\ b.sold_window_count = Cardinality(window)
            /\ IsRange(b.active_min, b.active_max,
                       {derived[i].list_price : i \in InBucket("Active")})
            /\ IsRange(b.pending_min, b.pending_max,
                       {derived[i].list_price : i \in InBucket("Pending")})
            /\ IsRange(b.sold_net_min, b.sold_net_max, {b.net_price[i] : i \in window})
            /\ b.avg_dom.nan <=> doms = {}
            /\ b.median_dom.nan <=> doms = {}
            /\ doms # {} =>
                  /\ \E i \in doms : FLe(derived[i].dom, b.avg_dom)
                  /\ \E i \in doms : FLe(b.avg_dom, derived[i].dom)
                  /\ \E i \in doms : FLe(derived[i].dom, b.median_dom)
                  /\ \E i \in doms : FLe(b.median_dom, derived[i].dom)

\* C9 witness: a record of the sold window whose close price did not parse is
\* counted, its day count enters the average, and the net price range, which
\* has no value, is reported as N/A.
C9_Witness ==
    /\ pc = "done"
    /\ \E i \in Rows :
          /\ bundle[1].is_sold_window[i]
          /\ ~df[i]["Close Price"].na /\ derived[i].close_price.nan
          /\ ~derived[i].dom.nan
    /\ bundle[1].sold_window_count = 1
    /\ ~bundle[1].avg_dom.nan
    /\ bundle[1].sold_net_min.nan
    /\ "Closed Net Price Range" \in report.na

====
